---- MODULE Spec2Model ----
(***************************************************************************)
(* Model of src/main.py: the Audio Transcription API.                      *)
(*                                                                         *)
(* The handlers are coroutines of one asyncio event loop.  A coroutine     *)
(* keeps the loop until it suspends; the only suspension point of          *)
(* process_audio is `await file.read()` (line 73): get_model contains no   *)
(* await and load_model_with_retry blocks in time.sleep.  The variable     *)
(* `running` is the task that holds the loop (NoTask: the loop is free).   *)
(* The file system has POSIX semantics: os.unlink of an existing file      *)
(* removes it, open or not, and fails only when the file does not exist.   *)
(***************************************************************************)
EXTENDS Integers, Sequences, FiniteSets, TLC

\* ------------------------------------------------------------------ bounds
NumTasks == 2          \* request-handling tasks alive at the same time

\* --------------------------------------------------------------- constants
max_retries == 3       \* main.py:22, default of load_model_with_retry
NoTask == 0            \* the event loop is free

Tasks == 1..NumTasks
\* the task serving GET /
RootTask == NumTasks + 1

\* the registry's keys, main.py:17-20
ModelNames == {"base", "large"}
\* model_size arguments process_audio is called with ("tiny" is not a key)
ModelSizes == ModelNames \cup {"tiny"}

\* main.py:18: an unset registry entry; a handle is what one successful
\* whisper.load_model call returned (the serial-th one for that size)
None == [model_size |-> "none", serial |-> 0]

\* ------------------------------------------------------------ file names
\* a filename is the sequence of its characters
fn_a_mp3     == <<"a", ".", "m", "p", "3">>
fn_a_b_M4A   == <<"a", ".", "b", ".", "M", "4", "A">>
fn_a_txt     == <<"a", ".", "t", "x", "t">>
fn_a_wav_txt == <<"a", ".", "w", "a", "v", ".", "t", "x", "t">>
fn_dot_wav   == <<".", "w", "a", "v">>
fn_dir_dot   == <<"d", ".", "w", "a", "v", "/", "a">>
Filenames == {fn_a_mp3, fn_a_b_M4A, fn_a_txt, fn_a_wav_txt, fn_dot_wav,
              fn_dir_dot}

\* the bytes of an upload: here one payload per filename length
DataOf(f) == IF Len(f) = 5 THEN "bytes5" ELSE "bytesN"

\* the uploads a request can carry: no file at all, or a named file
NoFile == [present |-> FALSE, filename |-> <<>>, data |-> "none"]
Uploads == {NoFile} \cup
           {[present |-> TRUE, filename |-> f, data |-> DataOf(f)] : f \in Filenames}

\* error messages whisper.load_model can fail with
LoadErrors == {"load_err_a", "load_err_b"}

\* what model.transcribe can return: text and segments; the segment "nan"
\* carries a non-finite float, which JSONResponse refuses to render
Results == { [text |-> "hello", segments |-> <<"s1", "s2">>],
             [text |-> "", segments |-> <<>>],
             [text |-> "hm", segments |-> <<"s1", "nan">>] }
NoResult == [text |-> "unset", segments |-> <<>>]

\* the names tempfile can give a scratch file: an id and the suffix asked for
ScratchIds == 1..NumTasks

\* local variable temp_file not bound yet
Unbound == [id |-> 0, suffix |-> <<>>]
NoExc == [at |-> "none", msg |-> "none"]
NoRequest == [model_size |-> "none", file |-> NoFile]
NoStatus == [n \in ModelNames |-> "not asked"]
NoResponse == [kind |-> "none", status_code |-> 0, detail |-> "none",
               content |-> NoResult]

VARIABLES
  models,       \* main.py:17 the registry: name -> handle or None
  handles,      \* name -> number of handles whisper.load_model has returned
  fs,           \* the scratch files that exist: records of name and bytes
  running,      \* the task holding the event loop
  pc,           \* task -> position in process_audio
  req,          \* task -> arguments (model_size, file)
  file_ext,     \* task -> local file_ext (main.py:59)
  model,        \* task -> local model (main.py:68)
  attempt,      \* task -> loop variable of load_model_with_retry
  loadLog,      \* task -> the attempts of its load_model_with_retry call,
                \*         kept until the caller's next statement
  temp_file,    \* task -> local temp_file (main.py:71)
  buf,          \* task -> bytes written to temp_file and not flushed
  content,      \* task -> local content (main.py:73)
  result,       \* task -> local result (main.py:78)
  exc,          \* task -> the exception caught at main.py:88
  unlinkCalls,  \* task -> os.unlink calls made by this invocation
  response,     \* task -> what process_audio returned or raised
  model_status, \* the last answer of GET /
  loadFailed    \* history: the names whose latest load_model_with_retry call
                \*          failed on every attempt

vars == <<models, handles, fs, running, pc, req, file_ext, model, attempt,
          loadLog, temp_file, buf, content, result, exc, unlinkCalls,
          response, model_status, loadFailed>>

registry == <<models, handles, loadFailed>>
locals == <<file_ext, model, attempt, loadLog, temp_file, buf, content,
            result, exc, unlinkCalls>>

\* ---------------------------------------------------------- pure functions
Max(S) == CHOOSE x \in S : \A y \in S : y <= x

\* str.rfind, 1-indexed: the last position of c in p, 0 when there is none
rfind(p, c) == Max({0} \cup {i \in 1..Len(p) : p[i] = c})

\* os.path.splitext(p)[1] (main.py:59): the suffix from the last dot of the
\* last path component, unless that component has only dots before it
splitext_ext(p) ==
  LET sepIndex == rfind(p, "/")
      dotIndex == rfind(p, ".")
  IN IF dotIndex > sepIndex
        /\ \E k \in (sepIndex + 1)..(dotIndex - 1) : p[k] # "."
     THEN SubSeq(p, dotIndex, Len(p))
     ELSE <<>>

\* str.lower on one character
lower_char(c) ==
  CASE c = "M" -> "m" [] c = "A" -> "a" [] c = "W" -> "w" [] c = "V" -> "v"
    [] OTHER -> c

\* str.lower (main.py:59)
lower(s) == [i \in 1..Len(s) |-> lower_char(s[i])]

\* main.py:58
allowed_extensions == { <<".", "m", "p", "3">>, <<".", "w", "a", "v">>,
                        <<".", "m", "4", "a">> }

\* main.py:59
file_ext_of(filename) == lower(splitext_ext(filename))

\* fault variant of validation_error: the file is checked before the identifier
validation_error_file_first(model_size, file) ==
  IF ~file.present THEN "No file provided"
  ELSE IF model_size \notin ModelNames THEN "Invalid model size"
  ELSE IF file_ext_of(file.filename) \notin allowed_extensions
       THEN "File type not supported"
  ELSE "ok"

\* main.py:47-64: the detail of the 400 raised, "ok" when none is raised
validation_error(model_size, file) ==
  IF model_size \notin DOMAIN models THEN "Invalid model size"
  ELSE IF ~file.present THEN "No file provided"
  ELSE IF file_ext_of(file.filename) \notin allowed_extensions
       THEN "File type not supported"
  ELSE "ok"

\* fault variant of is_last_attempt: one attempt too many
is_last_attempt_off_by_one(a) == ~(a < max_retries)

\* main.py:31: the else branch of `if attempt < max_retries - 1`
is_last_attempt(a) == ~(a < max_retries - 1)

\* fault variant of wait_time: linear instead of exponential backoff
wait_time_linear(a) == 2 * a

\* main.py:32
wait_time(a) == 2 ^ a

\* fault variant of entry_unset: a failed load is remembered
entry_unset_unless_failed(n) == models[n] = None /\ n \notin loadFailed

\* fault variant of entry_unset: the cache is never consulted
entry_unset_always(n) == TRUE

\* main.py:41
entry_unset(n) == models[n] = None

\* fault variant of reraise: the first attempt's error is raised
reraise_first(log, e) == log[1].err

\* main.py:37: a bare raise re-raises the exception being handled
reraise(log, e) == e

\* fault variant of in_locals: the except block never cleans up
in_locals_never(t) == FALSE

\* fault variant of in_locals: the except block always cleans up
in_locals_always(t) == TRUE

\* main.py:90: 'temp_file' in locals()
in_locals(t) == temp_file[t] # Unbound

\* fault variant of except_status: the except block answers 400
except_status_client(e) == 400

\* main.py:92: status_code=500
except_status(e) == 500

\* fault variant of str: the detail is a fixed text
str_generic(e) == "Internal Server Error"

\* main.py:92: str(e)
str(e) == e.msg

\* fault variant of status_of: the test is inverted
status_of_inverted(h) == IF h = None THEN "loaded" ELSE "not loaded"

\* main.py:107
status_of(h) == IF h # None THEN "loaded" ELSE "not loaded"

\* fault variant of response_content: only the first segment is returned
response_content_first_segment(r) ==
  [text |-> r.text,
   segments |-> IF r.segments = <<>> THEN <<>> ELSE <<r.segments[1]>>]

\* main.py:83-86
response_content(r) == [text |-> r.text, segments |-> r.segments]

\* JSONResponse renders with allow_nan=False
renderable(c) == \A i \in 1..Len(c.segments) : c.segments[i] # "nan"

\* os.path.exists for a scratch file name
exists(name) == \E e \in fs : e.name = name

HTTPException(code, d) ==
  [kind |-> "HTTPException", status_code |-> code, detail |-> d,
   content |-> NoResult]
JSONResponse(c) ==
  [kind |-> "JSONResponse", status_code |-> 200, detail |-> "none",
   content |-> c]
\* an exception that leaves process_audio and is not an HTTPException
Unhandled(name) ==
  [kind |-> name, status_code |-> 0, detail |-> "none", content |-> NoResult]

\* ------------------------------------------------------------------- Init
Init ==
  /\ models = [n \in ModelNames |-> None]
  /\ handles = [n \in ModelNames |-> 0]
  /\ fs = {}
  /\ running = NoTask
  /\ pc = [t \in Tasks |-> "idle"]
  /\ req = [t \in Tasks |-> NoRequest]
  /\ file_ext = [t \in Tasks |-> <<>>]
  /\ model = [t \in Tasks |-> None]
  /\ attempt = [t \in Tasks |-> 0]
  /\ loadLog = [t \in Tasks |-> <<>>]
  /\ temp_file = [t \in Tasks |-> Unbound]
  /\ buf = [t \in Tasks |-> "none"]
  /\ content = [t \in Tasks |-> "none"]
  /\ result = [t \in Tasks |-> NoResult]
  /\ exc = [t \in Tasks |-> NoExc]
  /\ unlinkCalls = [t \in Tasks |-> 0]
  /\ response = [t \in Tasks |-> NoResponse]
  /\ model_status = NoStatus
  /\ loadFailed = {}

\* ----------------------------------------------------------------- helpers
\* the statement at position `at` raises: control goes to main.py:88
Raise(t, at, msg) ==
  /\ exc' = [exc EXCEPT ![t] = [at |-> at, msg |-> msg]]
  /\ pc' = [pc EXCEPT ![t] = "except"]

\* process_audio returns or raises `r`
Leave(t, r) ==
  /\ response' = [response EXCEPT ![t] = r]
  /\ pc' = [pc EXCEPT ![t] = "done"]

\* ---------------------------------------------------------------- actions
\* main.py:45: a call of process_audio(file, model_size) starts on a free loop
process_audio(t, file, model_size) ==
  /\ pc[t] = "idle"
  /\ running = NoTask
  /\ running' = t
  /\ req' = [req EXCEPT ![t] = [model_size |-> model_size, file |-> file]]
  /\ pc' = [pc EXCEPT ![t] = "validate"]
  /\ UNCHANGED <<registry, fs, locals, response, model_status>>

\* main.py:94-97
transcribe_audio_fast(t) == \E file \in Uploads : process_audio(t, file, "base")

\* main.py:99-102
transcribe_audio_accurate(t) ==
  \E file \in Uploads : process_audio(t, file, "large")

\* a caller of process_audio that passes an identifier the registry lacks
process_audio_other(t) ==
  \E file \in Uploads : process_audio(t, file, "tiny")

\* main.py:47-64
validate(t) ==
  /\ pc[t] = "validate"
  /\ running = t
  /\ LET err == validation_error(req[t].model_size, req[t].file)
     IN IF err # "ok"
        THEN /\ Leave(t, HTTPException(400, err))
             /\ UNCHANGED file_ext
        ELSE /\ file_ext' = [file_ext EXCEPT ![t] = file_ext_of(req[t].file.filename)]
             /\ pc' = [pc EXCEPT ![t] = "get_model"]
             /\ UNCHANGED response
  /\ UNCHANGED <<registry, fs, running, req, model, attempt, loadLog,
                 temp_file, buf, content, result, exc, unlinkCalls,
                 model_status>>

\* main.py:39-43, the cached branch and the entry of load_model_with_retry
get_model(t) ==
  /\ pc[t] = "get_model"
  /\ running = t
  /\ IF entry_unset(req[t].model_size)
     THEN /\ pc' = [pc EXCEPT ![t] = "load"]
          /\ attempt' = [attempt EXCEPT ![t] = 0]
          /\ UNCHANGED model
     ELSE /\ model' = [model EXCEPT ![t] = models[req[t].model_size]]
          /\ pc' = [pc EXCEPT ![t] = "create"]
          /\ UNCHANGED attempt
  /\ UNCHANGED <<registry, fs, running, req, file_ext, loadLog, temp_file,
                 buf, content, result, exc, unlinkCalls, response,
                 model_status>>

\* main.py:27-29 and 42-43: whisper.load_model returns a handle, which
\* load_model_with_retry returns and get_model stores and returns
load_model_ok(t) ==
  /\ pc[t] = "load"
  /\ running = t
  /\ LET n == req[t].model_size
         h == [model_size |-> n, serial |-> handles[n] + 1]
     IN /\ handles' = [handles EXCEPT ![n] = @ + 1]
        /\ loadFailed' = loadFailed \ {n}
        /\ models' = [models EXCEPT ![n] = h]
        /\ model' = [model EXCEPT ![t] = h]
        /\ loadLog' = [loadLog EXCEPT ![t] =
             Append(@, [ok |-> TRUE, err |-> "none", wait |-> 0, handle |-> h])]
  /\ pc' = [pc EXCEPT ![t] = "create"]
  /\ UNCHANGED <<fs, running, req, file_ext, attempt, temp_file, buf,
                 content, result, exc, unlinkCalls, response, model_status>>

\* main.py:27 and 30-37: whisper.load_model raises e
load_model_fail(t) ==
  /\ pc[t] = "load"
  /\ running = t
  /\ \E e \in LoadErrors :
       LET last == is_last_attempt(attempt[t])
           w == IF last THEN 0 ELSE wait_time(attempt[t])
           log == Append(loadLog[t],
                    [ok |-> FALSE, err |-> e, wait |-> w, handle |-> None])
       IN /\ loadLog' = [loadLog EXCEPT ![t] = log]
          /\ IF last
             THEN /\ Raise(t, "load", reraise(log, e))
                  /\ loadFailed' = loadFailed \cup {req[t].model_size}
                  /\ UNCHANGED attempt
             ELSE /\ attempt' = [attempt EXCEPT ![t] = @ + 1]
                  /\ UNCHANGED <<pc, exc, loadFailed>>
  /\ UNCHANGED <<models, handles, fs, running, req, file_ext, model,
                 temp_file, buf, content, result, unlinkCalls, response,
                 model_status>>

\* fault variant of create_temp_file: the scratch file has a fixed name and
\* is opened for writing whether it exists or not
create_temp_file_fixed_name(t) ==
  /\ pc[t] = "create"
  /\ running = t
  /\ \/ LET name == [id |-> 1, suffix |-> file_ext[t]]
        IN /\ fs' = {e \in fs : e.name # name}
                       \cup {[name |-> name, data |-> "empty"]}
           /\ temp_file' = [temp_file EXCEPT ![t] = name]
           /\ pc' = [pc EXCEPT ![t] = "read"]
           /\ UNCHANGED exc
     \/ /\ Raise(t, "create", "mkstemp_err")
        /\ UNCHANGED <<fs, temp_file>>
  /\ loadLog' = [loadLog EXCEPT ![t] = <<>>]
  /\ UNCHANGED <<registry, running, req, file_ext, model, attempt, buf,
                 content, result, unlinkCalls, response, model_status>>

\* main.py:71: tempfile.NamedTemporaryFile(delete=False, suffix=file_ext)
\* creates a file under a name no existing file has, or fails
create_temp_file(t) ==
  /\ pc[t] = "create"
  /\ running = t
  /\ \/ \E i \in ScratchIds :
          LET name == [id |-> i, suffix |-> file_ext[t]]
          IN /\ \A e \in fs : e.name.id # i
             /\ fs' = fs \cup {[name |-> name, data |-> "empty"]}
             /\ temp_file' = [temp_file EXCEPT ![t] = name]
             /\ pc' = [pc EXCEPT ![t] = "read"]
             /\ UNCHANGED exc
     \/ /\ Raise(t, "create", "mkstemp_err")
        /\ UNCHANGED <<fs, temp_file>>
  /\ loadLog' = [loadLog EXCEPT ![t] = <<>>]
  /\ UNCHANGED <<registry, running, req, file_ext, model, attempt, buf,
                 content, result, unlinkCalls, response, model_status>>

\* main.py:73: await file.read() of an upload spooled to disk suspends
file_read_suspend(t) ==
  /\ pc[t] = "read"
  /\ running = t
  /\ running' = NoTask
  /\ pc' = [pc EXCEPT ![t] = "reading"]
  /\ UNCHANGED <<registry, fs, req, locals, response, model_status>>

\* the outcome of file.read(): the bytes, or an error
read_outcome(t) ==
  \/ /\ content' = [content EXCEPT ![t] = req[t].file.data]
     /\ pc' = [pc EXCEPT ![t] = "write"]
     /\ UNCHANGED exc
  \/ /\ Raise(t, "read", "read_err")
     /\ UNCHANGED content

\* main.py:73: the suspended read completes and the task gets the loop back
file_read_resume(t) ==
  /\ pc[t] = "reading"
  /\ running = NoTask
  /\ running' = t
  /\ read_outcome(t)
  /\ UNCHANGED <<registry, fs, req, file_ext, model, attempt, loadLog,
                 temp_file, buf, result, unlinkCalls, response, model_status>>

\* main.py:73: await file.read() of an upload held in memory does not suspend
file_read_in_memory(t) ==
  /\ pc[t] = "read"
  /\ running = t
  /\ read_outcome(t)
  /\ UNCHANGED <<registry, fs, running, req, file_ext, model, attempt,
                 loadLog, temp_file, buf, result, unlinkCalls, response,
                 model_status>>

\* main.py:74
temp_file_write(t) ==
  /\ pc[t] = "write"
  /\ running = t
  /\ \/ /\ buf' = [buf EXCEPT ![t] = content[t]]
        /\ pc' = [pc EXCEPT ![t] = "flush"]
        /\ UNCHANGED exc
     \/ /\ Raise(t, "write", "write_err")
        /\ UNCHANGED buf
  /\ UNCHANGED <<registry, fs, running, req, file_ext, model, attempt,
                 loadLog, temp_file, content, result, unlinkCalls, response,
                 model_status>>

\* fault variant of temp_file_flush: the bytes are left in the buffer
temp_file_flush_omitted(t) ==
  /\ pc[t] = "flush"
  /\ running = t
  /\ pc' = [pc EXCEPT ![t] = "transcribe"]
  /\ UNCHANGED <<registry, fs, running, req, locals, response, model_status>>

\* main.py:75
temp_file_flush(t) ==
  /\ pc[t] = "flush"
  /\ running = t
  /\ \/ /\ fs' = {IF e.name = temp_file[t]
                  THEN [name |-> e.name, data |-> buf[t]] ELSE e : e \in fs}
        /\ buf' = [buf EXCEPT ![t] = "none"]
        /\ pc' = [pc EXCEPT ![t] = "transcribe"]
        /\ UNCHANGED exc
     \/ /\ Raise(t, "flush", "flush_err")
        /\ UNCHANGED <<fs, buf>>
  /\ UNCHANGED <<registry, running, req, file_ext, model, attempt, loadLog,
                 temp_file, content, result, unlinkCalls, response,
                 model_status>>

\* main.py:78: model.transcribe(temp_file.name)
transcribe(t) ==
  /\ pc[t] = "transcribe"
  /\ running = t
  /\ IF exists(temp_file[t])
     THEN \/ \E r \in Results :
               /\ result' = [result EXCEPT ![t] = r]
               /\ pc' = [pc EXCEPT ![t] = "unlink"]
               /\ UNCHANGED exc
          \/ /\ Raise(t, "transcribe", "transcribe_err")
             /\ UNCHANGED result
     ELSE /\ Raise(t, "transcribe", "no_such_file")
          /\ UNCHANGED result
  /\ UNCHANGED <<registry, fs, running, req, file_ext, model, attempt,
                 loadLog, temp_file, buf, content, unlinkCalls, response,
                 model_status>>

\* main.py:81: os.unlink(temp_file.name) on the success path
unlink_after_transcribe(t) ==
  /\ pc[t] = "unlink"
  /\ running = t
  /\ unlinkCalls' = [unlinkCalls EXCEPT ![t] = @ + 1]
  /\ IF exists(temp_file[t])
     THEN /\ fs' = {e \in fs : e.name # temp_file[t]}
          /\ pc' = [pc EXCEPT ![t] = "respond"]
          /\ UNCHANGED exc
     ELSE /\ Raise(t, "unlink", "FileNotFoundError")
          /\ UNCHANGED fs
  /\ UNCHANGED <<registry, running, req, file_ext, model, attempt, loadLog,
                 temp_file, buf, content, result, response, model_status>>

\* main.py:83-86: build and return the JSONResponse
respond(t) ==
  /\ pc[t] = "respond"
  /\ running = t
  /\ LET c == response_content(result[t])
     IN IF renderable(c)
        THEN /\ Leave(t, JSONResponse(c))
             /\ UNCHANGED exc
        ELSE /\ Raise(t, "respond", "json_err")
             /\ UNCHANGED response
  /\ UNCHANGED <<registry, fs, running, req, file_ext, model, attempt,
                 loadLog, temp_file, buf, content, result, unlinkCalls,
                 model_status>>

\* fault variant of except_handler: a failed request evicts its model
except_handler_evicting(t) ==
  /\ pc[t] = "except"
  /\ running = t
  /\ IF in_locals(t)
     THEN /\ unlinkCalls' = [unlinkCalls EXCEPT ![t] = @ + 1]
          /\ IF exists(temp_file[t])
             THEN /\ fs' = {e \in fs : e.name # temp_file[t]}
                  /\ Leave(t, HTTPException(except_status(exc[t]), str(exc[t])))
             ELSE /\ Leave(t, Unhandled("FileNotFoundError"))
                  /\ UNCHANGED fs
     ELSE /\ Leave(t, HTTPException(except_status(exc[t]), str(exc[t])))
          /\ UNCHANGED <<fs, unlinkCalls>>
  /\ loadLog' = [loadLog EXCEPT ![t] = <<>>]
  /\ models' = [models EXCEPT ![req[t].model_size] = None]
  /\ UNCHANGED <<handles, loadFailed, running, req, file_ext, model, attempt,
                 temp_file, buf, content, result, exc, model_status>>

\* main.py:88-92: the except block
except_handler(t) ==
  /\ pc[t] = "except"
  /\ running = t
  /\ IF in_locals(t)
     THEN /\ unlinkCalls' = [unlinkCalls EXCEPT ![t] = @ + 1]
          /\ IF exists(temp_file[t])
             THEN /\ fs' = {e \in fs : e.name # temp_file[t]}
                  /\ Leave(t, HTTPException(except_status(exc[t]), str(exc[t])))
             ELSE /\ Leave(t, Unhandled("FileNotFoundError"))
                  /\ UNCHANGED fs
     ELSE /\ Leave(t, HTTPException(except_status(exc[t]), str(exc[t])))
          /\ UNCHANGED <<fs, unlinkCalls>>
  /\ loadLog' = [loadLog EXCEPT ![t] = <<>>]
  /\ UNCHANGED <<registry, running, req, file_ext, model, attempt, temp_file,
                 buf, content, result, exc, model_status>>

\* the response is handed to the framework: the coroutine is finished, its
\* locals are gone and the loop is free
task_end(t) ==
  /\ pc[t] = "done"
  /\ running = t
  /\ running' = NoTask
  /\ pc' = [pc EXCEPT ![t] = "idle"]
  /\ req' = [req EXCEPT ![t] = NoRequest]
  /\ file_ext' = [file_ext EXCEPT ![t] = <<>>]
  /\ model' = [model EXCEPT ![t] = None]
  /\ attempt' = [attempt EXCEPT ![t] = 0]
  /\ loadLog' = [loadLog EXCEPT ![t] = <<>>]
  /\ temp_file' = [temp_file EXCEPT ![t] = Unbound]
  /\ buf' = [buf EXCEPT ![t] = "none"]
  /\ content' = [content EXCEPT ![t] = "none"]
  /\ result' = [result EXCEPT ![t] = NoResult]
  /\ exc' = [exc EXCEPT ![t] = NoExc]
  /\ unlinkCalls' = [unlinkCalls EXCEPT ![t] = 0]
  /\ response' = [response EXCEPT ![t] = NoResponse]
  /\ UNCHANGED <<registry, fs, model_status>>

\* main.py:104-118: GET / starts on a free loop and builds its answer
root ==
  /\ running = NoTask
  /\ running' = RootTask
  /\ model_status' = [name \in DOMAIN models |-> status_of(models[name])]
  /\ UNCHANGED <<registry, fs, pc, req, locals, response>>

\* the answer of GET / is handed to the framework and the loop is free
root_end ==
  /\ running = RootTask
  /\ running' = NoTask
  /\ model_status' = NoStatus
  /\ UNCHANGED <<registry, fs, pc, req, locals, response>>

Next ==
  \/ \E t \in Tasks : transcribe_audio_fast(t)
  \/ \E t \in Tasks : transcribe_audio_accurate(t)
  \/ \E t \in Tasks : process_audio_other(t)
  \/ \E t \in Tasks : validate(t)
  \/ \E t \in Tasks : get_model(t)
  \/ \E t \in Tasks : load_model_ok(t)
  \/ \E t \in Tasks : load_model_fail(t)
  \/ \E t \in Tasks : create_temp_file(t)
  \/ \E t \in Tasks : file_read_suspend(t)
  \/ \E t \in Tasks : file_read_resume(t)
  \/ \E t \in Tasks : file_read_in_memory(t)
  \/ \E t \in Tasks : temp_file_write(t)
  \/ \E t \in Tasks : temp_file_flush(t)
  \/ \E t \in Tasks : transcribe(t)
  \/ \E t \in Tasks : unlink_after_transcribe(t)
  \/ \E t \in Tasks : respond(t)
  \/ \E t \in Tasks : except_handler(t)
  \/ \E t \in Tasks : task_end(t)
  \/ root
  \/ root_end

Spec == Init /\ [][Next]_vars

\* main.py:24-37: the loop of load_model_with_retry is synchronous code: each
\* whisper.load_model call returns or raises and each time.sleep returns, so
\* an invocation inside the loop takes its next step
FairSpec ==
  Spec /\ \A t \in Tasks : WF_vars(load_model_ok(t) \/ load_model_fail(t))

\* ------------------------------------------------------------------ claims

\* C1: when process_audio returns or raises, the scratch file the invocation
\* created does not exist, whichever step failed after its creation and also
\* when every step succeeded.
C1_ScratchFileGone ==
  \A t \in Tasks :
    (pc[t] = "done" /\ temp_file[t] # Unbound) =>
      /\ ~exists(temp_file[t])
      /\ \A e \in fs : \E u \in Tasks : u # t /\ temp_file[u] = e.name

\* C1 witness: an invocation that created its scratch file and failed in
\* transcribe has answered.
C1_Witness ==
  \E t \in Tasks :
    /\ pc[t] = "done"
    /\ temp_file[t] # Unbound
    /\ exc[t].at = "transcribe"
    /\ response[t].status_code = 500

\* C2: get_model on an unset entry makes at least one load attempt; once a
\* load for an identifier has succeeded, the entry keeps that handle, no
\* further load attempt is made for it, and get_model returns that handle.
C2_LoadOnce ==
  [][\A t \in Tasks :
       /\ (pc[t] = "get_model" /\ pc'[t] # "get_model") =>
            IF models[req[t].model_size] = None
            THEN pc'[t] = "load" /\ loadLog'[t] = <<>>
            ELSE /\ pc'[t] = "create"
                 /\ model'[t] = models[req[t].model_size]
                 /\ model'[t] = [model_size |-> req[t].model_size, serial |-> 1]
                 /\ loadLog'[t] = <<>>
       /\ (pc[t] = "load" /\ pc'[t] # "load") => Len(loadLog'[t]) >= 1
       /\ \A n \in ModelNames :
            handles[n] > 0 =>
              /\ models'[n] = models[n]
              /\ models[n] # None
              /\ handles'[n] = handles[n]
              /\ (pc[t] # "idle" /\ req[t].model_size = n) =>
                   Len(loadLog'[t]) <= Len(loadLog[t])
    ]_vars

\* C2 witness: a later get_model call has returned the cached handle without
\* a load attempt.
C2_Witness ==
  \E t \in Tasks :
    /\ pc[t] = "create"
    /\ loadLog[t] = <<>>
    /\ model[t] # None
    /\ model[t] = models[req[t].model_size]

\* C3: when all max_retries attempts of a load fail, the error of the last
\* attempt propagates and the registry entry is still unset.
C3_AllAttemptsFail ==
  \A t \in Tasks :
    /\ (Len(loadLog[t]) = max_retries /\ \A i \in 1..max_retries : ~loadLog[t][i].ok) =>
         /\ pc[t] = "except"
         /\ exc[t] = [at |-> "load", msg |-> loadLog[t][max_retries].err]
         /\ models[req[t].model_size] = None
    /\ (pc[t] = "done" /\ exc[t].at = "load") =>
         /\ models[req[t].model_size] = None
         /\ response[t].kind = "HTTPException"
         /\ model[t] = None

\* C3 witness: three attempts failed, the first and the last with different
\* errors.
C3_Witness ==
  \E t \in Tasks :
    /\ pc[t] = "except"
    /\ exc[t].at = "load"
    /\ Len(loadLog[t]) = max_retries
    /\ loadLog[t][1].err # loadLog[t][max_retries].err

\* C4: failing attempt i (0-indexed) that is not the last is followed by a
\* wait of 2^i seconds, the last attempt by none; with three attempts of
\* which the third succeeds the waits are 1 s and 2 s and the handle returned
\* is the one attempt 3 produced.
C4_Backoff ==
  \A t \in Tasks :
    LET log == loadLog[t] IN
    /\ Len(log) <= max_retries
    /\ \A k \in 1..Len(log) :
         /\ (~log[k].ok /\ k < max_retries) => log[k].wait = 2 ^ (k - 1)
         /\ (~log[k].ok /\ k = max_retries) => log[k].wait = 0
         /\ log[k].ok => (log[k].wait = 0 /\ k = Len(log))
         /\ k < Len(log) => ~log[k].ok
    /\ (Len(log) = 3 /\ log[3].ok) =>
         /\ <<log[1].wait, log[2].wait, log[3].wait>> = <<1, 2, 0>>
         /\ pc[t] = "create"
         /\ model[t] = log[3].handle
         /\ model[t] # None

\* C4 witness: attempts 1 and 2 failed and attempt 3 succeeded.
C4_Witness ==
  \E t \in Tasks :
    /\ Len(loadLog[t]) = 3
    /\ ~loadLog[t][1].ok /\ ~loadLog[t][2].ok /\ loadLog[t][3].ok

\* C5: a request answered 400 is answered by the validation step, before any
\* model acquisition or file persistence: that step leaves the registry and
\* the scratch files unchanged, and the invocation has made no load attempt,
\* created no scratch file and removed none.
C5_RejectedWithoutEffects ==
  [][\A t \in Tasks :
       (response'[t].status_code = 400 /\ response[t].status_code # 400) =>
         /\ pc[t] = "validate"
         /\ models' = models /\ handles' = handles /\ fs' = fs
         /\ loadLog'[t] = <<>> /\ model'[t] = None /\ exc'[t] = NoExc
         /\ temp_file'[t] = Unbound /\ unlinkCalls'[t] = 0
    ]_vars

\* C5 witness: an upload named a.txt is rejected while the registry holds a
\* handle and another request's scratch file exists.
C5_Witness ==
  \E t \in Tasks :
    /\ pc[t] = "done"
    /\ response[t].status_code = 400
    /\ req[t].file.present /\ req[t].file.filename = fn_a_txt
    /\ req[t].model_size = "base"
    /\ models["base"] # None
    /\ fs # {}

\* C6: process_audio answers 400 exactly when, in this order, the model
\* identifier is no key of the registry (InvalidModel), else the file is
\* absent (NoFile), else the lower-cased final extension of the filename is
\* none of .mp3, .wav, .m4a (UnsupportedFileType).
C6_ValidationOrder ==
  \A t \in Tasks :
    pc[t] = "done" =>
      LET r == req[t]
          expected ==
            IF r.model_size \notin {"base", "large"} THEN "Invalid model size"
            ELSE IF ~r.file.present THEN "No file provided"
            ELSE IF file_ext_of(r.file.filename) \notin
                      { <<".", "m", "p", "3">>, <<".", "w", "a", "v">>,
                        <<".", "m", "4", "a">> }
                 THEN "File type not supported"
            ELSE "ok"
      IN /\ response[t].status_code = 400 <=> expected # "ok"
         /\ response[t].status_code = 400 =>
              /\ response[t].kind = "HTTPException"
              /\ response[t].detail = expected
         \* the uploads of this model, case by case
         /\ (r.model_size \in {"base", "large"} /\ r.file.present) =>
              (response[t].status_code = 400 <=>
                 r.file.filename \in {fn_a_txt, fn_a_wav_txt, fn_dot_wav, fn_dir_dot})

\* C6 witness: a request with an invalid identifier and no file is answered
\* InvalidModel.
C6_Witness ==
  \E t \in Tasks :
    /\ pc[t] = "done"
    /\ req[t].model_size = "tiny"
    /\ ~req[t].file.present
    /\ response[t].detail = "Invalid model size"

\* C7: for a validated request, a failure of model acquisition, of audio
\* persistence or of transcribe is answered with HTTP 500 whose detail is the
\* message of the underlying error, never with 200 or 400.
C7_FailureIs500 ==
  \A t \in Tasks :
    (pc[t] = "done"
       /\ exc[t].at \in {"load", "create", "read", "write", "flush", "transcribe"}) =>
      /\ response[t].kind = "HTTPException"
      /\ response[t].status_code = 500
      /\ response[t].detail = exc[t].msg
      /\ response[t].detail \in LoadErrors \cup
           {"mkstemp_err", "read_err", "write_err", "flush_err", "transcribe_err"}

\* C7 witness: a flush failure has been answered.
C7_Witness ==
  \E t \in Tasks :
    /\ pc[t] = "done"
    /\ exc[t].at = "flush"
    /\ response[t].status_code = 500

\* C8: whenever GET / is served, model_status says "loaded" for an identifier
\* exactly when the registry entry holds a handle, which is exactly when a
\* load of that identifier has succeeded before; otherwise "not loaded".
C8_StatusMatchesRegistry ==
  running = RootTask =>
    \A n \in ModelNames :
      /\ model_status[n] \in {"loaded", "not loaded"}
      /\ model_status[n] = "loaded" <=> models[n] # None
      /\ model_status[n] = "loaded" <=> handles[n] > 0

\* C8 witness: GET / is served between the steps of a request suspended in
\* file.read(), with one model loaded and the other not.
C8_Witness ==
  /\ running = RootTask
  /\ model_status["base"] = "loaded"
  /\ model_status["large"] = "not loaded"
  /\ \E t \in Tasks : pc[t] = "reading"

\* C9: a 200 response is returned only after transcribe succeeded, and its
\* text and segments are exactly those of the transcribe result; no other
\* response carries any part of a result.
C9_ExactResult ==
  \A t \in Tasks :
    pc[t] = "done" =>
      IF response[t].status_code = 200
      THEN /\ result[t] \in Results
           /\ exc[t] = NoExc
           /\ response[t].kind = "JSONResponse"
           /\ response[t].content.text = result[t].text
           /\ response[t].content.segments = result[t].segments
      ELSE response[t].content = NoResult

\* C9 witness: a result of two segments has been returned.
C9_Witness ==
  \E t \in Tasks :
    /\ pc[t] = "done"
    /\ response[t].status_code = 200
    /\ Len(response[t].content.segments) = 2

\* C10: for every scratch file an invocation created, os.unlink is invoked
\* exactly once on every exit path, also when an error occurs after the
\* success-path unlink.
C10_UnlinkExactlyOnce ==
  \A t \in Tasks :
    (pc[t] = "done" /\ temp_file[t] # Unbound) => unlinkCalls[t] = 1


\* C11 (amended): two concurrent requests for the same identifier never both
\* load it.  While an invocation is in get_model or load_model_with_retry it
\* holds the event loop and every other invocation is idle or suspended in
\* file.read(); a suspended request for the same identifier has already left
\* get_model with the entry set, so the second one finds the handle cached,
\* and every entry is written at most once.
C11_NoDuplicateLoad ==
  /\ \A n \in ModelNames : handles[n] <= 1
  /\ \A t \in Tasks :
       pc[t] \in {"get_model", "load"} =>
         /\ running = t
         /\ \A u \in Tasks \ {t} :
              /\ pc[u] \in {"idle", "reading"}
              /\ (pc[u] = "reading" /\ req[u].model_size = req[t].model_size) =>
                   /\ pc[t] = "get_model"
                   /\ models[req[t].model_size] # None

\* C11 witness: a second request for an identifier is about to consult the
\* registry while a first request for the same identifier is in flight.
C11_Witness ==
  \E t, u \in Tasks :
    /\ t # u
    /\ pc[t] = "reading"
    /\ pc[u] = "get_model"
    /\ req[t].model_size = req[u].model_size

\* C11 (as claimed): two invocations can both be inside the load of the same
\* unset entry, that is: while one invocation has seen the entry unset and is
\* running load_model_with_retry, another invocation can take a step (and so
\* reach get_model and see the entry still unset).
C11_SecondLoaderCanRun ==
  \A t \in Tasks :
    pc[t] = "load" =>
      ENABLED (Next /\ \E u \in Tasks \ {t} : pc'[u] # pc[u])


\* C12: the steps of a request occur in the order Received, Validated,
\* ModelAcquired, AudioPersisted, Transcribed, Released, Responded, cut short
\* only by an error: transcribe is invoked only with the model acquired and
\* the upload's bytes written and flushed to the scratch file, and a request
\* that created a scratch file is answered only after os.unlink was attempted.
C12_StepOrder ==
  [][\A t \in Tasks :
       /\ pc'[t] # pc[t] =>
            <<pc[t], pc'[t]>> \in
              { <<"idle", "validate">>,
                <<"validate", "get_model">>, <<"validate", "done">>,
                <<"get_model", "load">>, <<"get_model", "create">>,
                <<"load", "create">>, <<"load", "except">>,
                <<"create", "read">>, <<"create", "except">>,
                <<"read", "reading">>, <<"read", "write">>, <<"read", "except">>,
                <<"reading", "write">>, <<"reading", "except">>,
                <<"write", "flush">>, <<"write", "except">>,
                <<"flush", "transcribe">>, <<"flush", "except">>,
                <<"transcribe", "unlink">>, <<"transcribe", "except">>,
                <<"unlink", "respond">>, <<"unlink", "except">>,
                <<"respond", "done">>, <<"respond", "except">>,
                <<"except", "done">>,
                <<"done", "idle">> }
       /\ pc'[t] = "transcribe" =>
            /\ model'[t] # None
            /\ model'[t] = models'[req'[t].model_size]
            /\ temp_file'[t] # Unbound
            /\ content'[t] = req'[t].file.data
            /\ buf'[t] = "none"
            /\ [name |-> temp_file'[t], data |-> req'[t].file.data] \in fs'
       /\ result'[t] # NoResult =>
            /\ pc'[t] \in {"unlink", "respond", "except", "done"}
            /\ model'[t] # None
            /\ temp_file'[t] # Unbound
       /\ pc'[t] = "respond" => unlinkCalls'[t] = 1
       /\ (pc'[t] = "done" /\ temp_file'[t] # Unbound) =>
            /\ unlinkCalls'[t] >= 1
            /\ response'[t] # NoResponse
       /\ (pc'[t] = "done" /\ response'[t].status_code = 200) =>
            /\ pc[t] = "respond"
            /\ unlinkCalls'[t] = 1
    ]_vars

\* C12 witness: a request went through every step and was answered 200.
C12_Witness ==
  \E t \in Tasks :
    /\ pc[t] = "done"
    /\ response[t].status_code = 200
    /\ model[t] # None
    /\ content[t] = req[t].file.data
    /\ unlinkCalls[t] = 1


\* C13: process_audio never attempts to release a scratch file that was
\* never created: when model acquisition or the creation of the scratch file
\* fails, no os.unlink is attempted and the request ends with a 500 error.
C13_NoReleaseWithoutFile ==
  \A t \in Tasks :
    /\ unlinkCalls[t] > 0 => temp_file[t] # Unbound
    /\ (pc[t] = "done" /\ exc[t].at \in {"load", "create"}) =>
         /\ temp_file[t] = Unbound
         /\ unlinkCalls[t] = 0
         /\ response[t].kind = "HTTPException"
         /\ response[t].status_code = 500

\* C13 witness: the creation of the scratch file failed and the request was
\* answered.
C13_Witness ==
  \E t \in Tasks :
    /\ pc[t] = "done"
    /\ exc[t].at = "create"
    /\ unlinkCalls[t] = 0
    /\ response[t].status_code = 500


\* C14: a failed load is not remembered: after a get_model call for an
\* identifier failed on all attempts the entry is unset, the next get_model
\* call for that identifier starts a fresh load sequence at attempt 0 with up
\* to max_retries attempts and waits of 1 s, 2 s, ..., and a successful
\* attempt of it is cached.
C14_FailureNotRemembered ==
  [][\A t \in Tasks :
       pc[t] \in {"get_model", "load"} =>
         LET n == req[t].model_size IN
         n \in loadFailed =>
           /\ models[n] = None
           /\ (pc[t] = "get_model" /\ pc'[t] # pc[t]) =>
                /\ pc'[t] = "load"
                /\ attempt'[t] = 0
                /\ loadLog'[t] = <<>>
           /\ pc[t] = "load" =>
                /\ attempt[t] \in 0..(max_retries - 1)
                /\ Len(loadLog[t]) = attempt[t]
                /\ \A k \in 1..Len(loadLog[t]) :
                     ~loadLog[t][k].ok /\ loadLog[t][k].wait = 2 ^ (k - 1)
           /\ (pc[t] = "load" /\ pc'[t] = "load") =>
                attempt'[t] = attempt[t] + 1
           /\ (pc[t] = "load" /\ pc'[t] = "create") =>
                /\ models'[n] # None
                /\ models'[n] = model'[t]
                /\ loadLog'[t][Len(loadLog'[t])].handle = models'[n]
           /\ (pc[t] = "load" /\ pc'[t] = "except") =>
                /\ attempt[t] = max_retries - 1
                /\ models'[n] = None
    ]_vars

\* C14 witness: after a load of an identifier failed on all attempts, a later
\* request for it is in a new load sequence, two attempts in.
C14_Witness ==
  \E t \in Tasks :
    /\ pc[t] = "load"
    /\ req[t].model_size \in loadFailed
    /\ attempt[t] = 2
    /\ Len(loadLog[t]) = 2


\* C15: a registry entry that holds a handle never returns to unset, whatever
\* requests follow, failing ones included; and the keys of the registry are
\* always exactly base and large.
C15_NoEviction ==
  [][/\ DOMAIN models = {"base", "large"}
     /\ DOMAIN models' = {"base", "large"}
     /\ \A n \in {"base", "large"} : models[n] # None => models'[n] # None
    ]_vars

\* C15 witness: a request failed after its model was loaded, and the entry
\* still holds the handle.
C15_Witness ==
  \E t \in Tasks :
    /\ pc[t] = "done"
    /\ exc[t].at = "read"
    /\ response[t].status_code = 500
    /\ models[req[t].model_size] # None


\* C16: a load_model_with_retry call always terminates and makes at least 1
\* and at most max_retries attempts: it stops at the first successful attempt
\* and returns that attempt's handle, and makes exactly max_retries attempts
\* when all of them fail.
C16_LoadTerminates ==
  /\ \A t \in Tasks : (pc[t] = "load") ~> (pc[t] # "load")
  /\ [](\A t \in Tasks :
          LET log == loadLog[t] IN
          /\ pc[t] = "load" =>
               /\ Len(log) = attempt[t]
               /\ attempt[t] < max_retries
               /\ \A k \in 1..Len(log) : ~log[k].ok
          /\ (pc[t] = "create" /\ log # <<>>) =>
               /\ Len(log) \in 1..3
               /\ Len(log) <= max_retries
               /\ log[Len(log)].ok
               /\ \A k \in 1..(Len(log) - 1) : ~log[k].ok
               /\ model[t] = log[Len(log)].handle
               /\ model[t] # None
          /\ (pc[t] = "except" /\ exc[t].at = "load") =>
               /\ Len(log) = 3
               /\ Len(log) = max_retries
               /\ \A k \in 1..Len(log) : ~log[k].ok)

\* C16 witness: a call returned the handle of its second attempt.
C16_Witness ==
  \E t \in Tasks :
    /\ pc[t] = "create"
    /\ Len(loadLog[t]) = 2
    /\ loadLog[t][2].ok
    /\ model[t] = loadLog[t][2].handle


\* C17: requests in flight at the same time each have their own scratch
\* file: the names differ, a file holds nothing but the bytes of the request
\* that created it, every existing file belongs to a request that has not
\* released it yet, and the file of a request that still uses it (from its
\* creation to its own unlink) exists, whatever other requests clean up.
C17_OwnScratchFile ==
  /\ \A t, u \in Tasks :
       (t # u /\ temp_file[t] # Unbound /\ temp_file[u] # Unbound) =>
         /\ temp_file[t] # temp_file[u]
         /\ temp_file[t].id # temp_file[u].id
  /\ \A t \in Tasks :
       pc[t] \in {"read", "reading", "write", "flush", "transcribe", "unlink"} =>
         /\ temp_file[t] # Unbound
         /\ \E e \in fs :
              /\ e.name = temp_file[t]
              /\ e.data = IF pc[t] \in {"transcribe", "unlink"}
                          THEN req[t].file.data ELSE "empty"
  /\ \A e \in fs :
       \E t \in Tasks :
         /\ temp_file[t] = e.name
         /\ pc[t] \in {"read", "reading", "write", "flush", "transcribe",
                       "unlink", "except"}
         /\ e.data \in {"empty", req[t].file.data}
  /\ Cardinality({e.name : e \in fs}) = Cardinality(fs)

\* C17 witness: one request is about to transcribe its own bytes while
\* another request, with a different upload, is suspended in file.read().
C17_Witness ==
  \E t, u \in Tasks :
    /\ t # u
    /\ pc[t] = "transcribe"
    /\ pc[u] = "reading"
    /\ req[t].file.data # req[u].file.data
    /\ [name |-> temp_file[t], data |-> req[t].file.data] \in fs
    /\ [name |-> temp_file[u], data |-> "empty"] \in fs

====
